---- MODULE Spec2Model ----
(***************************************************************************)
(* A model of traiNNer/utils/color_util.py: the colour conversions of the  *)
(* array backend (numpy, HWC) and of the tensor backend (torch, NCHW).     *)
(*                                                                         *)
(* The module is stateless, so the state is the caller's: the buffers it   *)
(* holds (heap), the handles it passes (img, img_ref_rgb) and the outcome  *)
(* of its last call (call).  Every function is one action: it reads the    *)
(* caller's buffers, allocates its temporaries on the heap, writes where   *)
(* the code writes in place, and leaves its result or its exception.       *)
(*                                                                         *)
(* Floating point values are carried in fixed point, FS units to 1.0, and  *)
(* every product and quotient is rounded to the nearest unit.  Integer     *)
(* dtypes carry plain integers.  Images are single pixels: every transform *)
(* of the file acts on one pixel's channel vector at a time.               *)
(***************************************************************************)
EXTENDS Integers, Sequences, FiniteSets, TLC

VARIABLES heap, img, img_ref_rgb, call, heap0

vars == <<heap, img, img_ref_rgb, call, heap0>>

(***************************************************************************)
(* Bounds.                                                                 *)
(***************************************************************************)
\* Sample levels per channel: 0 .. MaxLevel, spread over the dtype's range.
MaxLevel == 1

(***************************************************************************)
(* Fixed point arithmetic standing for float32 / float64.                  *)
(***************************************************************************)
FS == 10^6
HalfBase == 10^3

Abs(a) == IF a < 0 THEN -a ELSE a
Sgn(a) == IF a < 0 THEN -1 ELSE 1
Min(a, b) == IF a < b THEN a ELSE b
Max(a, b) == IF a < b THEN b ELSE a
Clamp(a, lo, hi) == Max(lo, Min(a, hi))

\* a * b of two non-negative fixed point values, rounded to nearest, computed
\* in halves so that no intermediate exceeds 31 bits (a, b < 10^9).
MulU(a, b) ==
    LET a1 == a \div HalfBase
        a0 == a % HalfBase
        b1 == b \div HalfBase
        b0 == b % HalfBase
        m == a1 * b0 + a0 * b1
        r == a0 * b0 + (FS \div 2)
    IN a1 * b1 + ((m + (r \div HalfBase)) \div HalfBase)

Mul(a, b) == Sgn(a) * Sgn(b) * MulU(Abs(a), Abs(b))

\* a / (n / d) for a fixed point a and a rational n / d with n * d < 2^31.
DivQ(a, n, d) ==
    LET q == Abs(a) \div n
        r == Abs(a) % n
    IN Sgn(a) * (q * d + ((r * d + (n \div 2)) \div n))

\* a / b of two fixed point values, b < 2 * 10^6.
DivFix(a, b) ==
    LET q == Abs(a) \div b
        r == Abs(a) % b
        q1 == (r * HalfBase) \div b
        r1 == (r * HalfBase) % b
    IN Sgn(a) * (q * FS + q1 * HalfBase + ((r1 * HalfBase) \div b))

\* x ** n for a small natural n.
RECURSIVE PowFix(_, _)
PowFix(x, n) == IF n = 0 THEN FS ELSE Mul(PowFix(x, n - 1), x)

\* The largest r in lo .. hi with r ** n <= y (bisection).
RECURSIVE RootSearch(_, _, _, _)
RootSearch(lo, hi, y, n) ==
    IF lo >= hi THEN lo
    ELSE LET mid == (lo + hi + 1) \div 2
         IN IF PowFix(mid, n) <= y
            THEN RootSearch(mid, hi, y, n)
            ELSE RootSearch(lo, mid - 1, y, n)

\* y ** (1 / n) for y >= 0.
Root(y, n) == RootSearch(0, Max(FS, y), y, n)

\* torch.pow(x, 2.4) = x^2 * (x^2) ** (1/5), for x >= 0.
Pow24(x) == Mul(Mul(x, x), Root(Mul(x, x), 5))

\* round(): to the nearest integer, halves to the even one.  The result is
\* an integer, not a fixed point value.
RoundHalfEven(a) ==
    LET q == a \div FS
        r == a % FS
    IN IF r * 2 > FS \/ (r * 2 = FS /\ q % 2 = 1) THEN q + 1 ELSE q

\* sum of a sequence of integers
RECURSIVE Sum(_)
Sum(s) == IF s = <<>> THEN 0 ELSE Head(s) + Sum(Tail(s))

\* np.matmul / torch.matmul of one pixel (a row vector) with a matrix given
\* as a sequence of rows; the pixel's length equals the number of rows.
MatVec(px, M) ==
    [j \in 1..Len(M[1]) |-> Sum([i \in 1..Len(px) |-> Mul(px[i], M[i][j])])]

(***************************************************************************)
(* Buffers, handles and outcomes.                                          *)
(***************************************************************************)
\* A storage: what kind of object owns it, its dtype and its samples.
Buf(kind, dtype, data) == [kind |-> kind, dtype |-> dtype, data |-> data]

\* A handle: an array or tensor object, a window lo .. hi on the samples of
\* storage id, with its shape.  id = 0 is None.
Handle(id, shape, lo, hi) == [id |-> id, shape |-> shape, lo |-> lo, hi |-> hi]
None == Handle(0, <<>>, 1, 0)

Read(h, t) == SubSeq(h[t.id].data, t.lo, t.hi)

\* the heap with the samples seen through handle t replaced by vals
WriteThrough(h, t, vals) ==
    [h EXCEPT ![t.id].data =
        [k \in 1..Len(@) |-> IF k >= t.lo /\ k <= t.hi THEN vals[k - t.lo + 1] ELSE @[k]]]

\* A function's outcome: the heap it leaves, and its return value or its
\* exception (err = "" when it returns), with the exception's message.
Ok(h, ret) == [h |-> h, ret |-> ret, err |-> "", text |-> "", about |-> <<>>, pre |-> <<>>]
Raise(h, err, text, about) ==
    [h |-> h, ret |-> None, err |-> err, text |-> text, about |-> about, pre |-> <<>>]

\* The caller's two buffers stay; of a call's allocations only the storage
\* of the returned object outlives the call.
NCaller == Len(heap0)
Collect(h, ret) ==
    IF ret.id <= NCaller THEN SubSeq(h, 1, NCaller)
    ELSE Append(SubSeq(h, 1, NCaller), h[ret.id])
Returned(ret) ==
    IF ret.id <= NCaller THEN ret ELSE [ret EXCEPT !.id = NCaller + 1]

(***************************************************************************)
(* Array backend: dtype and range normalisation.                           *)
(***************************************************************************)
IntDtypes == {"uint8", "int16"}

\* ndarray.astype(np.float32): the samples as floats
AsFloat(b) ==
    IF b.dtype \in IntDtypes THEN [k \in 1..Len(b.data) |-> b.data[k] * FS] ELSE b.data

\* a fault: the else branch passes instead of raising
convert_input_any_dtype(h, a) ==
    LET img_type == h[a.id].dtype
        h1 == Append(h, Buf("ndarray", "float32", AsFloat(h[a.id])))
        f == Handle(Len(h1), a.shape, 1, Len(h1[Len(h1)].data))
    IN IF img_type = "uint8"
       THEN Ok(WriteThrough(h1, f, [k \in 1..f.hi |-> DivQ(Read(h1, f)[k], 255, 1)]), f)
       ELSE Ok(h1, f)

convert_input_type_range(h, a) ==
    LET img_type == h[a.id].dtype
        h1 == Append(h, Buf("ndarray", "float32", AsFloat(h[a.id])))
        f == Handle(Len(h1), a.shape, 1, Len(h1[Len(h1)].data))
    IN IF img_type = "float32" THEN Ok(h1, f)
       ELSE IF img_type = "uint8"
            THEN Ok(WriteThrough(h1, f, [k \in 1..f.hi |-> DivQ(Read(h1, f)[k], 255, 1)]), f)
            ELSE Raise(h1, "TypeError",
                       "The img type should be np.float32 or np.uint8, but got", <<img_type>>)

\* ndarray.astype(np.uint8) of an integer-valued float.  Outside 0 .. 255 the
\* C conversion is undefined: the build either wraps or saturates.
CastUint8(v, wraps) ==
    IF v >= 0 /\ v <= 255 THEN v
    ELSE IF wraps THEN v % 256 ELSE Clamp(v, 0, 255)

convert_output_type_range(h, a, dst_type, wraps) ==
    IF dst_type \notin {"uint8", "float32"}
    THEN Raise(h, "TypeError",
               "The dst_type should be np.float32 or np.uint8, but got", <<dst_type>>)
    ELSE IF dst_type = "uint8"
    THEN LET rounded == [k \in 1..Len(Read(h, a)) |-> RoundHalfEven(Read(h, a)[k])]
             h1 == Append(h, Buf("ndarray", "float64",
                                 [k \in 1..Len(rounded) |-> rounded[k] * FS]))
             h2 == Append(h1, Buf("ndarray", "uint8",
                                  [k \in 1..Len(rounded) |-> CastUint8(rounded[k], wraps)]))
         IN [Ok(h2, Handle(Len(h2), a.shape, 1, Len(rounded))) EXCEPT !.pre = rounded]
    ELSE LET h1 == WriteThrough(h, a, [k \in 1..Len(Read(h, a)) |-> DivQ(Read(h, a)[k], 255, 1)])
             h2 == Append(h1, Buf("ndarray", "float32", Read(h1, a)))
         IN Ok(h2, Handle(Len(h2), a.shape, 1, Len(Read(h1, a))))

(***************************************************************************)
(* Array backend: BT.601 conversions.                                      *)
(***************************************************************************)
\* coefficients in FS units
RgbWeights == <<65481000, 128553000, 24966000>>
BgrWeights == <<24966000, 128553000, 65481000>>
RgbMatrix == << <<65481000, -37797000, 112000000>>,
                <<128553000, -74203000, -93786000>>,
                <<24966000, 112000000, -18214000>> >>
BgrMatrix == << <<24966000, 112000000, -18214000>>,
                <<128553000, -74203000, -93786000>>,
                <<65481000, -37797000, 112000000>> >>

\* [*np.matmul(img, M), 16, 128, 128]: a Python list holding the rows of the
\* product followed by the three numbers.
ListOfRowsAndOffsets(px, M) == MatVec(px, M) \o <<16 * FS, 128 * FS, 128 * FS>>

\* rgb2ycbcr and bgr2ycbcr, which differ in their constants only
to_ycbcr(h, a, y_only, wraps, W, M) ==
    LET img_type == h[a.id].dtype
        c == convert_input_type_range(h, a)
    IN IF c.err # "" THEN c
       ELSE LET px == Read(c.h, c.ret)
                h1 == IF y_only
                      THEN Append(c.h, Buf("ndarray", "float64",
                                           <<Sum([i \in 1..3 |-> Mul(px[i], W[i])]) + 16 * FS>>))
                      ELSE Append(c.h, Buf("list", "object", ListOfRowsAndOffsets(px, M)))
                out_img == Handle(Len(h1), IF y_only THEN SubSeq(a.shape, 1, 2) ELSE <<>>,
                                  1, Len(h1[Len(h1)].data))
            IN IF h1[out_img.id].kind # "ndarray"
               THEN Raise(h1, "AssertionError", "", <<>>)
               ELSE convert_output_type_range(h1, out_img, img_type, wraps)

rgb2ycbcr(h, a, y_only, wraps) == to_ycbcr(h, a, y_only, wraps, RgbWeights, RgbMatrix)
bgr2ycbcr(h, a, y_only, wraps) == to_ycbcr(h, a, y_only, wraps, BgrWeights, BgrMatrix)

\* coefficients of the inverse matrices in units of 10^-8, biases in FS units
InvRgbMatrix == << <<456621, 456621, 456621>>,
                   <<0, -153632, 791071>>,
                   <<625893, -318811, 0>> >>
InvRgbBias == <<-222921000, 135576000, -276836000>>
InvBgrMatrix == << <<456621, 456621, 456621>>,
                   <<791071, -153632, 0>>,
                   <<0, -318811, 625893>> >>
InvBgrBias == <<-276836000, 135576000, -222921000>>

\* one pixel times a matrix of 10^-8 coefficients
MatVec8(px, M) ==
    [j \in 1..3 |-> Sum([i \in 1..3 |-> DivQ(Mul(px[i], M[i][j]), 100, 1)])]

from_ycbcr(h, a, wraps, M, bias) ==
    LET img_type == h[a.id].dtype
        c == convert_input_type_range(h, a)
    IN IF c.err # "" THEN c
       ELSE LET px == [k \in 1..3 |-> Read(c.h, c.ret)[k] * 255]
                prod == MatVec8(px, M)
                h1 == Append(c.h, Buf("ndarray", "float32", px))
                h2 == Append(h1, Buf("ndarray", "float64",
                                     [k \in 1..3 |-> prod[k] * 255 + bias[k]]))
            IN convert_output_type_range(h2, Handle(Len(h2), a.shape, 1, 3), img_type, wraps)

ycbcr2rgb(h, a, wraps) == from_ycbcr(h, a, wraps, InvRgbMatrix, InvRgbBias)
ycbcr2bgr(h, a, wraps) == from_ycbcr(h, a, wraps, InvBgrMatrix, InvBgrBias)

(***************************************************************************)
(* Tensor backend: BT.601 conversions.                                     *)
(***************************************************************************)
Ndim(t) == Len(t.shape)

\* the size of the axis third from last, the channel axis of (*, C, H, W)
ChannelAxis(t) == t.shape[Ndim(t) - 2]

\* a fault: the full conversion done in place, in the storage of its argument
rgb2ycbcr_pt_inplace(h, t, y_only) ==
    IF Ndim(t) # 4
    THEN Raise(h, "RuntimeError", "permute: number of dims don't match", <<t.shape>>)
    ELSE IF t.shape[2] # 3
    THEN Raise(h, "RuntimeError", "mat1 and mat2 shapes cannot be multiplied", <<t.shape>>)
    ELSE LET px == Read(h, t)
             sum == [j \in 1..3 |-> MatVec(px, RgbMatrix)[j] + <<16, 128, 128>>[j] * FS]
         IN IF y_only
            THEN LET y == DivQ(Sum([i \in 1..3 |-> Mul(px[i], RgbWeights[i])]) + 16 * FS, 255, 1)
                     h1 == Append(h, Buf("Tensor", "float32", <<y>>))
                 IN Ok(h1, Handle(Len(h1), [t.shape EXCEPT ![2] = 1], 1, 1))
            ELSE Ok(WriteThrough(h, t, [k \in 1..3 |-> DivQ(sum[k], 255, 1)]), t)

rgb2ycbcr_pt(h, t, y_only) ==
    IF Ndim(t) # 4
    THEN Raise(h, "RuntimeError", "permute: number of dims don't match", <<t.shape>>)
    ELSE IF t.shape[2] # 3
    THEN Raise(h, "RuntimeError", "mat1 and mat2 shapes cannot be multiplied", <<t.shape>>)
    ELSE LET px == Read(h, t)
             sum == IF y_only
                    THEN <<Sum([i \in 1..3 |-> Mul(px[i], RgbWeights[i])]) + 16 * FS>>
                    ELSE [j \in 1..3 |-> MatVec(px, RgbMatrix)[j] + <<16, 128, 128>>[j] * FS]
             h1 == Append(h, Buf("Tensor", "float32", sum))
             h2 == Append(h1, Buf("Tensor", "float32",
                                  [k \in 1..Len(sum) |-> DivQ(sum[k], 255, 1)]))
         IN Ok(h2, Handle(Len(h2), [t.shape EXCEPT ![2] = Len(sum)], 1, Len(sum)))

\* img[:, i-1:i, :, :] of the samples of a tensor whose second axis has size
\* n: the i-th of n equal groups, or nothing when i > n
AxisSlice(vals, n, i) ==
    IF i > n THEN <<>>
    ELSE LET g == Len(vals) \div n IN SubSeq(vals, (i - 1) * g + 1, i * g)

\* the operand pairs of an elementwise combination of two slices that
\* broadcast along the second axis: none as soon as one slice is empty
Broadcast2(x, y) ==
    IF x = <<>> \/ y = <<>> THEN <<>> ELSE [k \in 1..Len(x) |-> <<x[k], y[k]>>]

YCbCrRed(y, cr) == Mul(1164000, y - 16 * FS) + Mul(1596000, cr - 128 * FS)
YCbCrGreenPart(y, cb) == Mul(1164000, y - 16 * FS) - Mul(392000, cb - 128 * FS)
YCbCrGreen(part, cr) == part - Mul(813000, cr - 128 * FS)
YCbCrBlue(y, cb) == Mul(1164000, y - 16 * FS) + Mul(2017000, cb - 128 * FS)

ycbcr2rgb_pt(h, t) ==
    LET img_ycbcr == [k \in 1..Len(Read(h, t)) |-> Read(h, t)[k] * 255]
        h1 == Append(h, Buf("Tensor", "float32", img_ycbcr))
    IN IF Ndim(t) < 4
       THEN Raise(h1, "IndexError", "too many indices for tensor of dimension", <<Ndim(t)>>)
       ELSE LET y == AxisSlice(img_ycbcr, t.shape[2], 1)
                cb == AxisSlice(img_ycbcr, t.shape[2], 2)
                cr == AxisSlice(img_ycbcr, t.shape[2], 3)
                ycr == Broadcast2(y, cr)
                ycb == Broadcast2(y, cb)
                r == IF ycr = <<>> THEN <<>>
                     ELSE [k \in 1..Len(ycr) |-> YCbCrRed(ycr[k][1], ycr[k][2])]
                part == IF ycb = <<>> THEN <<>>
                        ELSE [k \in 1..Len(ycb) |-> YCbCrGreenPart(ycb[k][1], ycb[k][2])]
                pcr == Broadcast2(part, cr)
                g == IF pcr = <<>> THEN <<>>
                     ELSE [k \in 1..Len(pcr) |-> YCbCrGreen(pcr[k][1], pcr[k][2])]
                b == IF ycb = <<>> THEN <<>>
                     ELSE [k \in 1..Len(ycb) |-> YCbCrBlue(ycb[k][1], ycb[k][2])]
                rgb == r \o g \o b
                groups == Cardinality({s \in {"r", "g", "b"} :
                              (s = "r" /\ r # <<>>) \/ (s = "g" /\ g # <<>>) \/ (s = "b" /\ b # <<>>)})
                h2 == Append(h1, Buf("Tensor", "float32", rgb))
                h3 == Append(h2, Buf("Tensor", "float32",
                                     [k \in 1..Len(rgb) |-> DivQ(rgb[k], 255, 1)]))
            IN Ok(h3, Handle(Len(h3), [t.shape EXCEPT ![2] = groups], 1, Len(rgb)))

(***************************************************************************)
(* Tensor backend: the pixel format dispatchers.                           *)
(***************************************************************************)
PixelFormat == {"rgb", "gray", "yuv444", "y", "uv"}

\* a fault: the uv arm implemented as the chroma slice instead of raising
rgb2pixelformat_pt_with_uv(h, t, pixel_format) ==
    IF pixel_format = "rgb" THEN Ok(h, t)
    ELSE IF pixel_format = "gray" THEN Raise(h, "NotImplementedError", "", <<>>)
    ELSE IF pixel_format = "yuv444" THEN rgb2ycbcr_pt(h, t, FALSE)
    ELSE IF pixel_format \in {"y", "uv"}
    THEN LET c == rgb2ycbcr_pt(h, t, FALSE)
         IN IF c.err # "" THEN c
            ELSE IF pixel_format = "y"
            THEN Ok(c.h, Handle(c.ret.id, [c.ret.shape EXCEPT ![2] = 1], 1, 1))
            ELSE Ok(c.h, Handle(c.ret.id, [c.ret.shape EXCEPT ![2] = 2], 2, 3))
    ELSE Raise(h, "NotImplementedError", "", <<pixel_format>>)

rgb2pixelformat_pt(h, t, pixel_format) ==
    IF pixel_format = "rgb" THEN Ok(h, t)
    ELSE IF pixel_format = "gray" THEN Raise(h, "NotImplementedError", "", <<>>)
    ELSE IF pixel_format = "yuv444" THEN rgb2ycbcr_pt(h, t, FALSE)
    ELSE IF pixel_format = "y"
    THEN LET c == rgb2ycbcr_pt(h, t, FALSE)
         IN IF c.err # "" THEN c
            ELSE Ok(c.h, Handle(c.ret.id, [c.ret.shape EXCEPT ![2] = 1], 1, 1))
    ELSE IF pixel_format = "uv" THEN Raise(h, "NotImplementedError", "", <<>>)
    ELSE Raise(h, "NotImplementedError", "", <<pixel_format>>)

\* dst[:, lo-1:hi, :, :] = src.  The source, its leading axes of size 1
\* dropped, must expand to the slice: it holds one sample or one per channel.
SliceAssign(h, dst, lo, hi, src) ==
    LET vals == Read(h, src)
        n == hi - lo + 1
    IN IF Len(vals) = n
       THEN Ok(WriteThrough(h, Handle(dst.id, dst.shape, lo, hi), vals), dst)
       ELSE IF Len(vals) = 1
       THEN Ok(WriteThrough(h, Handle(dst.id, dst.shape, lo, hi), [k \in 1..n |-> vals[1]]), dst)
       ELSE Raise(h, "RuntimeError", "shape mismatch on setitem", <<src.shape>>)

\* a fault: no assertion, so a missing reference fails inside the conversion
splice_unchecked(h, t, ref, lo, hi, text) ==
    IF ref = None
    THEN Raise(h, "AttributeError", "'NoneType' object has no attribute 'permute'", <<>>)
    ELSE LET c == rgb2ycbcr_pt(h, ref, FALSE)
         IN IF c.err # "" THEN c
            ELSE LET w == SliceAssign(c.h, c.ret, lo, hi, t)
                 IN IF w.err # "" THEN w ELSE ycbcr2rgb_pt(w.h, c.ret)

\* the two arms that splice the input into the reference's YCbCr image
splice_into_reference(h, t, ref, lo, hi, text) ==
    IF ref = None THEN Raise(h, "AssertionError", text, <<"img_ref_rgb">>)
    ELSE LET c == rgb2ycbcr_pt(h, ref, FALSE)
         IN IF c.err # "" THEN c
            ELSE LET w == SliceAssign(c.h, c.ret, lo, hi, t)
                 IN IF w.err # "" THEN w ELSE ycbcr2rgb_pt(w.h, c.ret)

pixelformat2rgb_pt(h, t, ref, pixel_format) ==
    IF pixel_format = "rgb" THEN Ok(h, t)
    ELSE IF pixel_format = "gray" THEN Raise(h, "NotImplementedError", "", <<>>)
    ELSE IF pixel_format = "yuv444" THEN ycbcr2rgb_pt(h, t)
    ELSE IF pixel_format = "y"
    THEN splice_into_reference(h, t, ref, 1, 1, "gt is required for luma pixel format")
    ELSE IF pixel_format = "uv"
    THEN splice_into_reference(h, t, ref, 2, 3, "gt is required for chroma pixel format")
    ELSE Raise(h, "NotImplementedError", "", <<pixel_format>>)

(***************************************************************************)
(* Tensor backend: luma, linear RGB, XYZ and Lab.                          *)
(***************************************************************************)
\* the sRGB decoding of one sample on either side of 0.04045
SrgbLow(x) == DivQ(x, 1292, 100)
SrgbHigh(x) == Pow24(DivQ(x + 55000, 1055, 1000))

\* 216 / 24389 and 24389 / 27 in FS units
LstarThreshold == (216 * FS) \div 24389
LstarSlope == (24389 \div 27) * FS + (((24389 % 27) * FS) \div 27)

\* the CIE L* step of rgb_to_luma for one sample of linear luminance
LstarLow(y) == Mul(y, Mul(y, LstarSlope))
LstarHigh(y) == Mul(Root(y, 3), 116 * FS) - 16 * FS
Lstar(y) == IF y <= LstarThreshold THEN LstarLow(y) ELSE LstarHigh(y)

LumaWeights == <<212600, 715200, 72200>>

\* the linear luminance of one pixel of rgb_to_luma: the clamp, the sRGB
\* decoding and, for three channels, the weighted sum
Clamped(vals) == [k \in 1..Len(vals) |-> Clamp(vals[k], 0, FS)]
Decoded(vals) ==
    [k \in 1..Len(vals) |-> IF vals[k] <= 40450 THEN SrgbLow(vals[k]) ELSE SrgbHigh(vals[k])]
Luminance(lin) ==
    IF Len(lin) = 3 THEN <<Sum([i \in 1..3 |-> Mul(lin[i], LumaWeights[i])])>> ELSE lin

rgb_to_luma(h, t) ==
    IF Ndim(t) < 3 \/ (ChannelAxis(t) # 3 /\ ChannelAxis(t) # 1)
    THEN Raise(h, "ValueError",
               "Input size must have a shape of (*, 3, H, W) or (*, 1, H, W). Got", <<t.shape>>)
    ELSE IF Ndim(t) # 4
    THEN Raise(h, "RuntimeError", "permute: number of dims don't match", <<t.shape>>)
    ELSE LET clamped == Clamped(Read(h, t))
             h1 == Append(h, Buf("Tensor", "float32", clamped))
             lin == Decoded(clamped)
             h2 == Append(h1, Buf("Tensor", "float32", lin))
             lum == Luminance(lin)
             h3 == Append(h2, Buf("Tensor", "float32", lum))
             lstar == [k \in 1..Len(lum) |-> Lstar(lum[k])]
             h4 == Append(h3, Buf("Tensor", "float32", lstar))
             out_img == [k \in 1..Len(lstar) |-> Clamp(DivQ(lstar[k], 100, 1), 0, FS)]
             h5 == Append(h4, Buf("Tensor", "float32", out_img))
             shape == IF ChannelAxis(t) = 3
                      THEN <<t.shape[1], t.shape[3], t.shape[4]>>
                      ELSE <<t.shape[1], t.shape[3], t.shape[4], t.shape[2]>>
         IN Ok(h5, Handle(Len(h5), shape, 1, Len(out_img)))

ShapeError(h, t) ==
    Raise(h, "ValueError", "Input size must have a shape of (*, 3, H, W). Got", <<t.shape>>)

\* a fault: the decoding written into the argument, which is returned
rgb_to_linear_rgb_inplace(h, t) ==
    IF Ndim(t) < 3 \/ ChannelAxis(t) # 3 THEN ShapeError(h, t)
    ELSE LET image == Read(h, t)
         IN Ok(WriteThrough(h, t, [k \in 1..Len(image) |->
                   IF image[k] > 40450 THEN SrgbHigh(image[k]) ELSE SrgbLow(image[k])]), t)

rgb_to_linear_rgb(h, t) ==
    IF Ndim(t) < 3 \/ ChannelAxis(t) # 3 THEN ShapeError(h, t)
    ELSE LET image == Read(h, t)
             h1 == Append(h, Buf("Tensor", "float32",
                       [k \in 1..Len(image) |->
                           IF image[k] > 40450 THEN SrgbHigh(image[k]) ELSE SrgbLow(image[k])]))
         IN Ok(h1, Handle(Len(h1), t.shape, 1, Len(image)))

XyzMatrix == << <<412453, 212671, 19334>>,
                <<357580, 715160, 119193>>,
                <<180423, 72169, 950227>> >>

rgb_to_xyz(h, t) ==
    IF Ndim(t) < 3 \/ ChannelAxis(t) # 3 THEN ShapeError(h, t)
    ELSE LET h1 == Append(h, Buf("Tensor", "float32", MatVec(Read(h, t), XyzMatrix)))
         IN Ok(h1, Handle(Len(h1), t.shape, 1, 3))

XyzRefWhite == <<950470, 1000000, 1088830>>
LabThreshold == 8856

\* the piecewise cube root of linear_rgb_to_lab_norm for one sample
LabPiece(v) ==
    IF v > LabThreshold THEN Root(Max(v, LabThreshold), 3)
    ELSE Mul(7787000, v) + DivQ(4 * FS, 29, 1)

linear_rgb_to_lab_norm(h, t) ==
    IF Ndim(t) < 3 \/ ChannelAxis(t) # 3 THEN ShapeError(h, t)
    ELSE LET c == rgb_to_xyz(h, t)
             xyz_normalized == [k \in 1..3 |-> DivFix(Read(c.h, c.ret)[k], XyzRefWhite[k])]
             h1 == Append(c.h, Buf("Tensor", "float32", xyz_normalized))
             xyz_int == [k \in 1..3 |-> LabPiece(xyz_normalized[k])]
             h2 == Append(h1, Buf("Tensor", "float32", xyz_int))
             L == DivQ(Mul(116 * FS, xyz_int[2]) - 16 * FS, 100, 1)
             a == DivQ(Mul(500 * FS, xyz_int[1] - xyz_int[2]) + 128 * FS, 255, 1)
             b == DivQ(Mul(200 * FS, xyz_int[2] - xyz_int[3]) + 128 * FS, 255, 1)
             h3 == Append(h2, Buf("Tensor", "float32", <<L, a, b>>))
         IN Ok(h3, Handle(Len(h3), t.shape, 1, 3))

(***************************************************************************)
(* The caller: its inputs, and one action per function of the file.        *)
(***************************************************************************)
\* sample values of one channel: 8-bit levels, and floats in [0, 1] with one
\* dark value below both the sRGB and the L* thresholds
Levels8 == {(255 * k) \div MaxLevel : k \in 0..MaxLevel}
FloatLevels == {(FS * k) \div MaxLevel : k \in 0..MaxLevel} \cup {FS \div 25}

ArrayDtypes == {"uint8", "float32", "float64", "int16"}
ValidDtypes == {"uint8", "float32"}

ArrayInputs ==
    {Buf("ndarray", d, px) : d \in IntDtypes, px \in [1..3 -> Levels8]}
    \cup {Buf("ndarray", d, px) : d \in ArrayDtypes \ IntDtypes, px \in [1..3 -> FloatLevels]}

\* tensors of one pixel: two to five axes, the channels third from last
TensorShapes ==
    {<<1, 1>>} \cup {<<c, 1, 1>> : c \in 1..3} \cup {<<1, c, 1, 1>> : c \in 1..3}
    \cup {<<1, 1, c, 1, 1>> : c \in 1..3}
Numel(shape) == IF Len(shape) < 3 THEN 1 ELSE shape[Len(shape) - 2]

\* reference images: 4-axis RGB tensors
RefInputs ==
    {Buf("Tensor", "float32", px) : px \in {p \in [1..3 -> {0, FS}] : p[1] # p[2] /\ p[2] = p[3]}}

Tags == PixelFormat \cup {"nv12"}

NoCall ==
    [fn |-> "", y_only |-> FALSE, pixel_format |-> "", ref |-> None,
     err |-> "", text |-> "", about |-> <<>>, ret |-> None, pre |-> <<>>]

InitArray ==
    /\ \E b \in ArrayInputs :
          /\ heap = <<b>>
          /\ img = Handle(1, <<1, 1, 3>>, 1, 3)
    /\ img_ref_rgb = None

InitTensor ==
    \E shape \in TensorShapes :
      \E px \in [1..Numel(shape) -> FloatLevels] :
          /\ img = Handle(1, shape, 1, Numel(shape))
          /\ \/ /\ heap = <<Buf("Tensor", "float32", px)>>
                /\ img_ref_rgb = None
             \/ \E r \in RefInputs :
                   /\ heap = <<Buf("Tensor", "float32", px), r>>
                   /\ img_ref_rgb = Handle(2, <<1, 3, 1, 1>>, 1, 3)

Init ==
    /\ InitArray \/ InitTensor
    /\ heap0 = heap
    /\ call = NoCall

\* the call returns or raises: the caller keeps its buffers and the result
Finish(fn, y_only, pixel_format, ref, r) ==
    /\ heap' = Collect(r.h, r.ret)
    /\ call' = [fn |-> fn, y_only |-> y_only, pixel_format |-> pixel_format, ref |-> ref,
                err |-> r.err, text |-> r.text, about |-> r.about,
                ret |-> Returned(r.ret), pre |-> r.pre]
    /\ UNCHANGED <<img, img_ref_rgb, heap0>>

IsArray == heap[img.id].kind = "ndarray"
IsTensor == heap[img.id].kind = "Tensor"

Call_rgb2ycbcr ==
    /\ IsArray
    /\ \E y_only \in BOOLEAN, wraps \in BOOLEAN :
          Finish("rgb2ycbcr", y_only, "", None, rgb2ycbcr(heap, img, y_only, wraps))

Call_bgr2ycbcr ==
    /\ IsArray
    /\ \E y_only \in BOOLEAN, wraps \in BOOLEAN :
          Finish("bgr2ycbcr", y_only, "", None, bgr2ycbcr(heap, img, y_only, wraps))

Call_ycbcr2rgb ==
    /\ IsArray
    /\ \E wraps \in BOOLEAN : Finish("ycbcr2rgb", FALSE, "", None, ycbcr2rgb(heap, img, wraps))

Call_ycbcr2bgr ==
    /\ IsArray
    /\ \E wraps \in BOOLEAN : Finish("ycbcr2bgr", FALSE, "", None, ycbcr2bgr(heap, img, wraps))

Call_rgb2ycbcr_pt ==
    /\ IsTensor
    /\ \E y_only \in BOOLEAN :
          Finish("rgb2ycbcr_pt", y_only, "", None, rgb2ycbcr_pt(heap, img, y_only))

Call_ycbcr2rgb_pt ==
    /\ IsTensor
    /\ Finish("ycbcr2rgb_pt", FALSE, "", None, ycbcr2rgb_pt(heap, img))

Call_rgb2pixelformat_pt ==
    /\ IsTensor
    /\ \E pixel_format \in Tags :
          Finish("rgb2pixelformat_pt", FALSE, pixel_format, None,
                 rgb2pixelformat_pt(heap, img, pixel_format))

Call_pixelformat2rgb_pt ==
    /\ IsTensor
    /\ \E pixel_format \in Tags, ref \in {None, img_ref_rgb} :
          Finish("pixelformat2rgb_pt", FALSE, pixel_format, ref,
                 pixelformat2rgb_pt(heap, img, ref, pixel_format))

Call_rgb_to_luma ==
    /\ IsTensor
    /\ Finish("rgb_to_luma", FALSE, "", None, rgb_to_luma(heap, img))

Call_rgb_to_linear_rgb ==
    /\ IsTensor
    /\ Finish("rgb_to_linear_rgb", FALSE, "", None, rgb_to_linear_rgb(heap, img))

Call_rgb_to_xyz ==
    /\ IsTensor
    /\ Finish("rgb_to_xyz", FALSE, "", None, rgb_to_xyz(heap, img))

Call_linear_rgb_to_lab_norm ==
    /\ IsTensor
    /\ Finish("linear_rgb_to_lab_norm", FALSE, "", None, linear_rgb_to_lab_norm(heap, img))

Next ==
    \/ Call_rgb2ycbcr
    \/ Call_bgr2ycbcr
    \/ Call_ycbcr2rgb
    \/ Call_ycbcr2bgr
    \/ Call_rgb2ycbcr_pt
    \/ Call_ycbcr2rgb_pt
    \/ Call_rgb2pixelformat_pt
    \/ Call_pixelformat2rgb_pt
    \/ Call_rgb_to_luma
    \/ Call_rgb_to_linear_rgb
    \/ Call_rgb_to_xyz
    \/ Call_linear_rgb_to_lab_norm

Spec == Init /\ [][Next]_vars

(***************************************************************************)
(* Properties.                                                             *)
(***************************************************************************)
ArrayFns == {"rgb2ycbcr", "bgr2ycbcr", "ycbcr2rgb", "ycbcr2bgr"}
Dispatchers == {"rgb2pixelformat_pt", "pixelformat2rgb_pt"}

\* the caller's input as it was before any call
Input == heap0[1]
CallerBuffers == SubSeq(heap, 1, NCaller)

\* the unit-normalised input of the array backend, and the BT.601 product
\* plus offsets converted back to the input's dtype
UnitNormalized ==
    IF Input.dtype = "uint8" THEN [k \in 1..3 |-> DivQ(Input.data[k] * FS, 255, 1)]
    ELSE Input.data
Bt601(M) ==
    LET v == [j \in 1..3 |-> MatVec(UnitNormalized, M)[j] + <<16, 128, 128>>[j] * FS]
    IN IF Input.dtype = "uint8" THEN [j \in 1..3 |-> RoundHalfEven(v[j])]
       ELSE [j \in 1..3 |-> DivQ(v[j], 255, 1)]

\* C1: for every valid 3-channel input, rgb2ycbcr and bgr2ycbcr with
\* y_only=False return normally the BT.601 matrix product plus [16,128,128]
\* in the input's dtype; uint8 RGB red [255,0,0] gives [81,90,240].
C1_FullConversionReturns ==
    (call.fn \in {"rgb2ycbcr", "bgr2ycbcr"} /\ ~call.y_only /\ Input.dtype \in ValidDtypes) =>
        /\ call.err = ""
        /\ Read(heap, call.ret) = Bt601(IF call.fn = "rgb2ycbcr" THEN RgbMatrix ELSE BgrMatrix)
        /\ (call.fn = "rgb2ycbcr" /\ Input.dtype = "uint8" /\ Input.data = <<255, 0, 0>>) =>
               Read(heap, call.ret) = <<81, 90, 240>>

\* C2: for every valid uint8 image, ycbcr2rgb(rgb2ycbcr(img)) (and the BGR
\* pair) returns an image within 1 of img in every sample.
C2_RoundTripWithinOne ==
    (call.fn \in {"rgb2ycbcr", "bgr2ycbcr"} /\ ~call.y_only /\ Input.dtype = "uint8") =>
        /\ call.err = ""
        /\ \A wraps \in BOOLEAN :
              LET back == IF call.fn = "rgb2ycbcr" THEN ycbcr2rgb(heap, call.ret, wraps)
                          ELSE ycbcr2bgr(heap, call.ret, wraps)
              IN /\ back.err = ""
                 /\ \A k \in 1..3 : Abs(Read(back.h, back.ret)[k] - Input.data[k]) <= 1

\* C3: every successful call of the four array functions on a valid input
\* returns the input's dtype with samples in its range: the rounded value
\* cast to uint8 lies in 0 .. 255, a float32 sample in [0, 1].
C3_OutputInRange ==
    (call.fn \in ArrayFns /\ call.err = "" /\ Input.dtype \in ValidDtypes) =>
        /\ heap[call.ret.id].dtype = Input.dtype
        /\ Input.dtype = "uint8" => \A k \in 1..Len(call.pre) : call.pre[k] \in 0..255
        /\ Input.dtype = "float32" =>
               \A k \in 1..Len(Read(heap, call.ret)) : Read(heap, call.ret)[k] \in 0..FS

\* the tensor the caller passes carries the channels its tag names
CarriesFormat(pixel_format) ==
    \/ pixel_format \in {"rgb", "yuv444"} /\ img.shape = <<1, 3, 1, 1>>
    \/ pixel_format = "y" /\ img.shape = <<1, 1, 1, 1>>
    \/ pixel_format = "uv" /\ img.shape = <<1, 2, 1, 1>>

MissingReference ==
    /\ call.err = "AssertionError"
    /\ call.text \in {"gt is required for luma pixel format",
                      "gt is required for chroma pixel format"}

\* C4: pixelformat2rgb_pt fails with the missing-reference error exactly
\* when the tag is y or uv and no reference is given; rgb and yuv444 without
\* a reference, and y and uv with one, return a result; gray ends the same
\* way with and without a reference.
C4_ReferenceRequiredForYAndUv ==
    call.fn = "pixelformat2rgb_pt" =>
        /\ MissingReference <=> (call.pixel_format \in {"y", "uv"} /\ call.ref = None)
        /\ (call.pixel_format \in {"rgb", "yuv444"} /\ call.ref = None
                /\ CarriesFormat(call.pixel_format)) => (call.err = "" /\ call.ret # None)
        /\ (call.pixel_format \in {"y", "uv"} /\ call.ref # None
                /\ CarriesFormat(call.pixel_format)) => (call.err = "" /\ call.ret # None)
        /\ call.pixel_format = "gray" =>
               (call.err = "NotImplementedError" /\ call.text = "" /\ call.ret = None)

C4_Witness ==
    /\ call.fn = "pixelformat2rgb_pt"
    /\ call.pixel_format = "uv"
    /\ call.ref = None
    /\ img_ref_rgb # None
    /\ MissingReference

\* C5: rgb2pixelformat_pt raises NotImplementedError exactly for gray, uv
\* and unknown tags and returns a tensor for rgb, yuv444 and y;
\* pixelformat2rgb_pt raises it exactly for gray and unknown tags; neither
\* ever returns nothing.
C5_NotImplementedTags ==
    /\ call.fn = "rgb2pixelformat_pt" =>
          /\ call.err = "NotImplementedError" <=> call.pixel_format \notin {"rgb", "yuv444", "y"}
          /\ (call.pixel_format \in {"rgb", "yuv444", "y"} /\ img.shape = <<1, 3, 1, 1>>) =>
                 call.err = ""
    /\ call.fn = "pixelformat2rgb_pt" =>
          (call.err = "NotImplementedError" <=>
               call.pixel_format \notin {"rgb", "yuv444", "y", "uv"})
    /\ (call.fn \in Dispatchers /\ call.err = "") =>
          (call.ret # None /\ heap[call.ret.id].kind = "Tensor")

C5_Witness ==
    /\ call.fn = "rgb2pixelformat_pt"
    /\ call.pixel_format = "uv"
    /\ img.shape = <<1, 3, 1, 1>>
    /\ call.err = "NotImplementedError"

C7_AlwaysFreshBuffer ==
    (call.fn # "" /\ call.err = "") => call.ret.id > NCaller

\* C7 as amended: every successful call returns a buffer that shares no
\* storage with the caller's, except the two dispatchers with tag rgb, which
\* return the input tensor itself.
C7_FreshBufferExceptRgbTag ==
    (call.fn # "" /\ call.err = "") =>
        IF call.fn \in Dispatchers /\ call.pixel_format = "rgb"
        THEN call.ret = img
        ELSE call.ret.id > NCaller

C7_Witness ==
    /\ call.fn = "rgb_to_linear_rgb"
    /\ call.err = ""
    /\ call.ret.id > NCaller
    /\ Read(heap, call.ret) # Read(heap, img)

\* the shapes rgb_to_luma's message accepts
LumaShapeOk == Ndim(img) >= 3 /\ ChannelAxis(img) \in {1, 3}

\* C8: rgb_to_luma returns for every tensor of at least 3 axes whose third
\* from last has size 1 or 3, and fails with the shape ValueError, stating
\* the pattern and the shape, for every other; nothing that passes the
\* shape check fails later.
C8_LumaShapeValidation ==
    call.fn = "rgb_to_luma" =>
        IF LumaShapeOk THEN call.err = ""
        ELSE /\ call.err = "ValueError"
             /\ call.text = "Input size must have a shape of (*, 3, H, W) or (*, 1, H, W). Got"
             /\ call.about = <<img.shape>>

\* C9: rgb_to_luma returns clamp(Y * (24389/27) / 100, 0, 1) where the
\* linear luminance Y is at most 216/24389, and
\* clamp((116 * cuberoot(Y) - 16) / 100, 0, 1) above.
C9_LstarLinearSegment ==
    (call.fn = "rgb_to_luma" /\ call.err = "") =>
        LET Y == Luminance(Decoded(Clamped(Input.data)))[1]
        IN Read(heap, call.ret)[1] =
              IF Y <= LstarThreshold
              THEN Clamp(DivQ(Mul(Y, LstarSlope), 100, 1), 0, FS)
              ELSE Clamp(DivQ(Mul(Root(Y, 3), 116 * FS) - 16 * FS, 100, 1), 0, FS)

\* C10: pixelformat2rgb_pt with tag y or uv, returning or failing, leaves
\* the reference tensor and the input tensor as they were before any call;
\* its result shares no storage with them, and is what the same call gives
\* on the untouched buffers, whatever calls came before.
C10_ReferenceNeverWritten ==
    (call.fn = "pixelformat2rgb_pt" /\ call.pixel_format \in {"y", "uv"}) =>
        /\ CallerBuffers = heap0
        /\ call.err = "" =>
              /\ call.ret.id > NCaller
              /\ LET first == pixelformat2rgb_pt(heap0, img, call.ref, call.pixel_format)
                 IN Read(heap, call.ret) = Read(first.h, first.ret)

C10_Witness ==
    /\ call.fn = "pixelformat2rgb_pt"
    /\ call.pixel_format = "uv"
    /\ call.err = ""
    /\ call.ref = img_ref_rgb
    /\ img.shape = <<1, 2, 1, 1>>
    /\ Read(heap, call.ret) # Read(heap, img_ref_rgb)

====
